---------------------------- MODULE Spec2Model ----------------------------
(***************************************************************************)
(* Model of the floodfill fire-event labeling of tibroc/floodfill:         *)
(*   floodfill/algorithms/nogueira_etal.py  (_get_neighbors, run)          *)
(* A cell is <<y, x>>, 0-based, as numpy indexes raster[y, x].             *)
(***************************************************************************)
EXTENDS Integers, FiniteSets, Sequences, TLC

\* ------------------------------------------------------------- bounds
\* Largest side (height or width) of a raster.
MaxSide == 3
\* Largest number of cells of a raster that run() is applied to.
MaxCells == 6
\* Largest burn date of an input cell (0 = not burned).
MaxDate == 3
\* Largest cut-off; the smallest one is -1 (a negative cut-off).
MaxCutOff == 1
\* Largest neighbourhood distance handed to _get_neighbors.
MaxDistance == 2
\* Largest number of cells of a raster whose pixels are processed in every
\* possible order.
MaxOrderCells == 4
\* Largest value of a cell, and of the bounds, handed to isolate_burned_pixels
\* (the smallest cell value is -1).
MaxValue == 3
\* Largest number of cells of an array handed to isolate_burned_pixels.
MaxFilterLen == 2
\* Largest number of files the recursive glob finds.
MaxFiles == 3
\* Largest --n-workers and largest cpu count.
MaxWorkers == 2

\* fire_id_raster is numpy.uint16: a stored value is kept modulo 2^16.
IdModulus == 65536

Dates == 0..MaxDate
CutOffs == -1..MaxCutOff
Distances == 0..MaxDistance
AllShapes == {sh \in (1..MaxSide) \X (1..MaxSide) : TRUE}
RunShapes == {sh \in AllShapes : sh[1] * sh[2] <= MaxCells}
OrderShapes == {sh \in AllShapes : sh[1] * sh[2] <= MaxOrderCells}

VARIABLES
    shape,            \* raster.shape = <<y_max, x_max>>
    raster,           \* the input raster: cell -> burn date
    coords,           \* zip(y_coor, x_coor): the burned cells in scan order
    cut_off,          \* the cut_off argument of run
    fire_id_raster,   \* cell -> event id (uint16), 0 = unlabeled
    burn_date_raster, \* cell -> burn date (int16)
    fire_counter,     \* the next fresh id
    idx,              \* number of (y, x) pairs the for loop has consumed
    pc,               \* "scan" inside the for loop, "done" after return,
                      \* "nb" when _get_neighbors is called on its own
    last_case,        \* the branch the last iteration took
    ever_ids,         \* cell -> the ids the cell has held so far (history)
    nb,               \* the last _get_neighbors call: arguments and mask
    flt,              \* isolate_burned_pixels: its arguments and its array
    config,           \* the parsed command line of __main__.main
    cpus,             \* multiprocessing.cpu_count()
    files,            \* the files the recursive glob has matched
    calls,            \* the arguments of the process_file calls so far
    wstate,           \* file -> how far its process_file call has come
    outputs,          \* output path -> the input file whose result it holds
    writers,          \* output path -> the input files written to it (history)
    mpc               \* the position of __main__.main

runVars == <<shape, raster, coords, cut_off, fire_id_raster, burn_date_raster,
             fire_counter, idx, pc, last_case, ever_ids, nb>>
cliVars == <<flt, config, cpus, files, calls, wstate, outputs, writers, mpc>>
vars == <<runVars, cliVars>>

\* ------------------------------------------------------------ helpers
Abs(n) == IF n < 0 THEN -n ELSE n
Max2(a, b) == IF a >= b THEN a ELSE b
Min2(a, b) == IF a <= b THEN a ELSE b
MinOf(S) == CHOOSE m \in S : \A s \in S : m <= s
MaxOf(S) == CHOOSE m \in S : \A s \in S : m >= s

Cells(sh) == (0..(sh[1] - 1)) \X (0..(sh[2] - 1))

\* a[lo:hi] on an axis of length n, as Python slices it (negative bounds
\* count from the end, both are clipped to 0..n).
SliceIdx(lo, hi, n) ==
    LET norm(i) == IF i < 0 THEN Max2(i + n, 0) ELSE Min2(i, n)
    IN  norm(lo)..(norm(hi) - 1)

\* Variant: the slices end at y + distance and x + distance (the + 1 of the
\* exclusive upper bound is missing).
get_neighbors_short(x, y, sh, distance) ==
    LET y_max == sh[1]
        x_max == sh[2]
        y_low == Max2(y - distance, 0)
        y_high == Min2(y + distance, y_max)
        x_low == Max2(x - distance, 0)
        x_high == Min2(x + distance, x_max)
    IN  (SliceIdx(y_low, y_high, y_max) \X SliceIdx(x_low, x_high, x_max))
            \ {<<y, x>>}

\* _get_neighbors(x, y, data, distance): the cells the mask sets True.
get_neighbors(x, y, sh, distance) ==
    LET y_max == sh[1]
        x_max == sh[2]
        y_low == Max2(y - distance, 0)
        y_high == Min2(y + distance + 1, y_max)
        x_low == Max2(x - distance, 0)
        x_high == Min2(x + distance + 1, x_max)
    IN  (SliceIdx(y_low, y_high, y_max) \X SliceIdx(x_low, x_high, x_max))
            \ {<<y, x>>}

\* numpy.where(raster > 0): the burned cells, in row-major order.
BurnedOf(sh, r) == {c \in Cells(sh) : r[c] > 0}
RowMajor(sh, c) == c[1] * sh[2] + c[2]
\* zip(y_coor, x_coor) as a sequence of cells.
ScanSeq(sh, r) ==
    LET B == BurnedOf(sh, r)
    IN  [i \in 1..Cardinality(B) |->
            CHOOSE c \in B :
                Cardinality({b \in B : RowMajor(sh, b) < RowMajor(sh, c)}) = i - 1]

Burned == {coords[i] : i \in 1..Len(coords)}
n_pixels == Len(coords)
\* The cells the loop has already consumed.
Processed == {coords[i] : i \in 1..idx}

\* ------------------------------------------- one iteration of the loop
Cur == coords[idx + 1]
pixel_date == raster[Cur]

\* Variant: the tolerance is one day too wide.
CurrentFireLoose(ndate, d, cut) == Abs(ndate - d) <= cut + 1
\* numpy.abs(neighbor_dates - pixel_date) <= cut_off, for one neighbour.
CurrentFire(ndate, d, cut) == Abs(ndate - d) <= cut

\* Lines 72-81: the neighbourhood of the current pixel and its meta data.
Neighborhood ==
    LET neighbor_mask == get_neighbors(Cur[2], Cur[1], shape, 1)
        current_fire == {n \in neighbor_mask :
                            CurrentFire(burn_date_raster[n], pixel_date, cut_off)}
        current_ids == {fire_id_raster[n] : n \in current_fire}
    IN  [neighbor_mask |-> neighbor_mask,
         old_fire_present |-> \E n \in neighbor_mask : fire_id_raster[n] > 0,
         current_fire |-> current_fire,
         n_current_fires |-> Cardinality(current_fire),
         current_ids |-> current_ids,
         n_current_ids |-> Cardinality(current_ids)]

\* Line 84.
CaseNew(nh) ==
    ~nh.old_fire_present \/ (nh.old_fire_present /\ nh.n_current_fires = 0)
\* Lines 98-100.
CaseAdopt(nh) ==
    /\ nh.old_fire_present /\ nh.n_current_fires > 0
    /\ (nh.n_current_fires = 1
        \/ (nh.n_current_fires > 1 /\ nh.n_current_ids = 1))
\* Lines 98-104.
CaseMerge(nh) ==
    /\ nh.old_fire_present /\ nh.n_current_fires > 0
    /\ ~(nh.n_current_fires = 1
         \/ (nh.n_current_fires > 1 /\ nh.n_current_ids = 1))
    /\ nh.n_current_fires > 1 /\ nh.n_current_ids > 1

\* The value a uint16 cell holds after "cell = v".
StoreId(v) == v % IdModulus

\* current_ids[0] of the sorted numpy.unique result.
FirstId(ids) == MinOf(ids)

\* Variant: the highest matched id is taken.
LowestIdWrong(ids) == MaxOf(ids)
\* current_ids.min()
LowestId(ids) == MinOf(ids)

\* Variant: only the neighbours of the current pixel are rewritten.
RewriteNearby(grid, ids, m) ==
    [c \in DOMAIN grid |->
        IF grid[c] \in ids /\ c \in get_neighbors(Cur[2], Cur[1], shape, 1)
        THEN m ELSE grid[c]]
\* fire_id_raster[numpy.isin(fire_id_raster, ids)] = m
Rewrite(grid, ids, m) ==
    [c \in DOMAIN grid |-> IF grid[c] \in ids THEN m ELSE grid[c]]

\* Variant: the date is written to every cell of the pixel's event.
SetDateOfEvent(dates, c, d) ==
    [k \in DOMAIN dates |->
        IF k = c \/ (fire_id_raster'[k] # 0
                     /\ fire_id_raster'[k] = fire_id_raster'[c])
        THEN d ELSE dates[k]]
\* burn_date_raster[y, x] = pixel_date (int16; input dates are at most 366)
SetDate(dates, c, d) == [dates EXCEPT ![c] = d]

\* Variant: the increment is missing.
CounterKept(n) == n
\* The next value of fire_counter after a fresh id was handed out.
CounterNext(n) == n + 1

\* The history of ids per cell, extended by the ids of the new grid.
Record(ids) == [c \in DOMAIN ids |-> ever_ids[c] \cup {ids[c]}]

\* No call of _get_neighbors on its own has been made.
NbIdle == [x |-> 0, y |-> 0, distance |-> 0, mask |-> {}, called |-> FALSE]

\* isolate_burned_pixels has not been called.
FltIdle == [input |-> <<>>, array |-> <<>>, upper |-> 0, lower |-> 0,
            done |-> FALSE]

\* __main__.main is not running.
BatchIdle ==
    /\ config = [recursive |-> FALSE, save_bd |-> FALSE, n_workers |-> 1,
                 input |-> <<>>]
    /\ cpus = 1
    /\ files = {}
    /\ calls = <<>>
    /\ wstate = <<>>
    /\ outputs = <<>>
    /\ writers = <<>>
    /\ mpc = "idle"

\* The command-line layer is not running.
CliIdle ==
    /\ flt = FltIdle
    /\ BatchIdle

\* ---------------------------------------------------------------- run
Init ==
    /\ CliIdle
    /\ shape \in RunShapes
    /\ raster \in [Cells(shape) -> Dates]
    /\ coords = ScanSeq(shape, raster)
    /\ cut_off \in CutOffs
    /\ fire_id_raster = [c \in Cells(shape) |-> 0]
    /\ burn_date_raster = [c \in Cells(shape) |-> 0]
    /\ fire_counter = 1
    /\ idx = 0
    /\ pc = "scan"
    /\ last_case = "none"
    /\ ever_ids = [c \in Cells(shape) |-> {0}]
    /\ nb = NbIdle

\* Lines 84-96: a new fire (or the skip when an id is already there).
NewFire ==
    /\ UNCHANGED cliVars
    /\ pc = "scan" /\ idx < n_pixels
    /\ CaseNew(Neighborhood)
    /\ IF fire_id_raster[Cur] > 0
       THEN /\ last_case' = "skip"
            /\ UNCHANGED <<fire_id_raster, burn_date_raster, fire_counter,
                           ever_ids>>
       ELSE LET ids == [fire_id_raster EXCEPT ![Cur] = StoreId(fire_counter)]
            IN  /\ fire_id_raster' = ids
                /\ burn_date_raster' = SetDate(burn_date_raster, Cur, pixel_date)
                /\ fire_counter' = CounterNext(fire_counter)
                /\ ever_ids' = Record(ids)
                /\ last_case' = "new"
    /\ idx' = idx + 1
    /\ UNCHANGED <<shape, raster, coords, cut_off, pc, nb>>

\* Lines 98-103: adopt the id of the matching neighbours.
Adopt ==
    /\ UNCHANGED cliVars
    /\ pc = "scan" /\ idx < n_pixels
    /\ LET nh == Neighborhood
       IN  /\ CaseAdopt(nh)
           /\ LET ids == [fire_id_raster EXCEPT ![Cur] = FirstId(nh.current_ids)]
              IN  /\ fire_id_raster' = ids
                  /\ ever_ids' = Record(ids)
    /\ burn_date_raster' = SetDate(burn_date_raster, Cur, pixel_date)
    /\ last_case' = "adopt"
    /\ idx' = idx + 1
    /\ UNCHANGED <<shape, raster, coords, cut_off, fire_counter, pc, nb>>

\* Lines 104-109: merge all matched ids into the lowest one.
Merge ==
    /\ UNCHANGED cliVars
    /\ pc = "scan" /\ idx < n_pixels
    /\ LET nh == Neighborhood
       IN  /\ CaseMerge(nh)
           /\ LET m == LowestId(nh.current_ids)
                  ids == [Rewrite(fire_id_raster, nh.current_ids, m)
                             EXCEPT ![Cur] = m]
              IN  /\ fire_id_raster' = ids
                  /\ ever_ids' = Record(ids)
    /\ burn_date_raster' = SetDate(burn_date_raster, Cur, pixel_date)
    /\ last_case' = "merge"
    /\ idx' = idx + 1
    /\ UNCHANGED <<shape, raster, coords, cut_off, fire_counter, pc, nb>>

\* Line 111: the loop is exhausted, run returns both rasters.
Return ==
    /\ UNCHANGED cliVars
    /\ pc = "scan" /\ idx = n_pixels
    /\ pc' = "done"
    /\ UNCHANGED <<shape, raster, coords, cut_off, fire_id_raster, burn_date_raster,
                   fire_counter, idx, last_case, ever_ids, nb>>

Next == NewFire \/ Adopt \/ Merge \/ Return

Spec == Init /\ [][Next]_vars

\* ----------------------------------------- _get_neighbors on its own
\* The state before a call of _get_neighbors on a zero raster of any shape
\* (tests/__main__.py: numpy.zeros((3, 3))).
InitNb ==
    /\ CliIdle
    /\ shape \in AllShapes
    /\ raster = [c \in Cells(shape) |-> 0]
    /\ coords = <<>>
    /\ cut_off = 0
    /\ fire_id_raster = [c \in Cells(shape) |-> 0]
    /\ burn_date_raster = [c \in Cells(shape) |-> 0]
    /\ fire_counter = 1
    /\ idx = 0
    /\ pc = "nb"
    /\ last_case = "none"
    /\ ever_ids = [c \in Cells(shape) |-> {0}]
    /\ nb = NbIdle

\* One call _get_neighbors(x, y, data, distance) with an in-bounds centre.
NbCall ==
    /\ UNCHANGED cliVars
    /\ pc = "nb"
    /\ \E c \in Cells(shape), d \in Distances :
          nb' = [x |-> c[2], y |-> c[1], distance |-> d,
                 mask |-> get_neighbors(c[2], c[1], shape, d),
                 called |-> TRUE]
    /\ UNCHANGED <<shape, raster, coords, cut_off, fire_id_raster,
                   burn_date_raster, fire_counter, idx, pc, last_case,
                   ever_ids>>

NextNb == NbCall

SpecNb == InitNb /\ [][NextNb]_vars

\* ------------------------------ the loop of run over any pixel order
\* All orders in which the cells of B can be processed.
Orders(B) ==
    {o \in [1..Cardinality(B) -> B] : \A i, j \in DOMAIN o : i # j => o[i] # o[j]}

\* run with the burned pixels handed to the loop of line 67 in any order.
InitOrder ==
    /\ CliIdle
    /\ shape \in OrderShapes
    /\ raster \in [Cells(shape) -> Dates]
    /\ coords \in Orders(BurnedOf(shape, raster))
    /\ cut_off \in CutOffs
    /\ fire_id_raster = [c \in Cells(shape) |-> 0]
    /\ burn_date_raster = [c \in Cells(shape) |-> 0]
    /\ fire_counter = 1
    /\ idx = 0
    /\ pc = "scan"
    /\ last_case = "none"
    /\ ever_ids = [c \in Cells(shape) |-> {0}]
    /\ nb = NbIdle

NextOrder == NewFire \/ Adopt \/ Merge \/ Return

SpecOrder == InitOrder /\ [][NextOrder]_vars

\* Lines 69-109 as a function: the rasters and the counter after the loop
\* body has handled cell c in st = [ids, dates, counter].
ScanStep(st, c) ==
    LET d == raster[c]
        neighbor_mask == get_neighbors(c[2], c[1], shape, 1)
        current_fire == {n \in neighbor_mask : CurrentFire(st.dates[n], d, cut_off)}
        current_ids == {st.ids[n] : n \in current_fire}
        nh == [old_fire_present |-> \E n \in neighbor_mask : st.ids[n] > 0,
               n_current_fires |-> Cardinality(current_fire),
               n_current_ids |-> Cardinality(current_ids)]
    IN  IF CaseNew(nh)
        THEN IF st.ids[c] > 0
             THEN st
             ELSE [ids |-> [st.ids EXCEPT ![c] = StoreId(st.counter)],
                   dates |-> [st.dates EXCEPT ![c] = d],
                   counter |-> CounterNext(st.counter)]
        ELSE IF CaseAdopt(nh)
        THEN [ids |-> [st.ids EXCEPT ![c] = FirstId(current_ids)],
              dates |-> [st.dates EXCEPT ![c] = d],
              counter |-> st.counter]
        ELSE IF CaseMerge(nh)
        THEN [ids |-> [[k \in DOMAIN st.ids |->
                           IF st.ids[k] \in current_ids
                           THEN LowestId(current_ids) ELSE st.ids[k]]
                          EXCEPT ![c] = LowestId(current_ids)],
              dates |-> [st.dates EXCEPT ![c] = d],
              counter |-> st.counter]
        ELSE st

RECURSIVE ScanFrom(_, _, _)
\* The loop of line 67 over order[i..]: the state run returns.
ScanFrom(st, order, i) ==
    IF i > Len(order) THEN st ELSE ScanFrom(ScanStep(st, order[i]), order, i + 1)

\* What run returns for the raster and cut_off of this state, processed in
\* the given order.
RunResult(order) ==
    ScanFrom([ids |-> [c \in Cells(shape) |-> 0],
              dates |-> [c \in Cells(shape) |-> 0],
              counter |-> 1], order, 1)

\* What run returns with the row-major order of numpy.where.
RowMajorResult == RunResult(ScanSeq(shape, raster))

\* run is not running.
RunIdle ==
    /\ shape = <<1, 1>>
    /\ raster = [c \in Cells(<<1, 1>>) |-> 0]
    /\ coords = <<>>
    /\ cut_off = 0
    /\ fire_id_raster = [c \in Cells(<<1, 1>>) |-> 0]
    /\ burn_date_raster = [c \in Cells(<<1, 1>>) |-> 0]
    /\ fire_counter = 1
    /\ idx = 0
    /\ pc = "idle"
    /\ last_case = "none"
    /\ ever_ids = [c \in Cells(<<1, 1>>) |-> {0}]
    /\ nb = NbIdle

\* ------------------------------------------------ isolate_burned_pixels
\* The values a cell of the array can hold, and the values of the bounds.
Values == -1..MaxValue
FilterBounds == 0..MaxValue

\* The arrays handed to the filter, cell by cell (the filter is elementwise,
\* so the two dimensions of the array are laid out in one row).
FilterArrays == UNION {[1..n -> Values] : n \in 1..MaxFilterLen}

\* not_burned = logical_or(array <= lower, array >= upper);
\* array[not_burned] = 0.
isolate_burned_pixels(array, upper, lower) ==
    [i \in DOMAIN array |->
        IF array[i] <= lower \/ array[i] >= upper THEN 0 ELSE array[i]]

InitFilter ==
    /\ RunIdle
    /\ BatchIdle
    /\ \E a \in FilterArrays, u \in FilterBounds, l \in FilterBounds :
          flt = [input |-> a, array |-> a, upper |-> u, lower |-> l,
                 done |-> FALSE]

\* The call: the array is changed in place and returned.
Isolate ==
    /\ ~flt.done
    /\ flt' = [flt EXCEPT
                 !.array = isolate_burned_pixels(flt.array, flt.upper,
                                                 flt.lower),
                 !.done = TRUE]
    /\ UNCHANGED <<runVars, config, cpus, files, calls, wstate, outputs,
                   writers, mpc>>

NextFilter == Isolate

SpecFilter == InitFilter /\ [][NextFilter]_vars

\* ------------------------------------------ __main__.main and its workers
\* Paths are sequences of names. config.input is the root folder under -r
\* and a single raster file otherwise.
Root == <<"in">>
Dirs == {"a", "b"}
Bases == {"x", "y"}
RasterFiles == {<<"in", d, b>> : d \in Dirs, b \in Bases}

\* What glob.glob(pattern, recursive=True) can return.
FileSets == {fs \in SUBSET RasterFiles : Cardinality(fs) <= MaxFiles}

IsDir(path) == Len(path) = 1

\* os.path.basename(file)
basename(file) == file[Len(file)]

\* _get_filename(config.output_folder, file, insertion): the folder and the
\* extension are the same for every call, so a path is the pair of the base
\* name and the insertion.
get_filename(file, insertion) == <<basename(file), insertion>>

OutPaths == {get_filename(f, ins) :
                f \in RasterFiles,
                ins \in {"floodfill_burndates", "floodfill_ids"}}

\* n_workers = cpus if config.n_workers > cpus else config.n_workers
n_workers == IF config.n_workers > cpus THEN cpus ELSE config.n_workers

\* The files whose process_file call is under way.
Busy == {f \in DOMAIN wstate : wstate[f] \in {"read", "bd"}}

\* How often process_file has been called on a path.
CallCount(path) == Cardinality({i \in DOMAIN calls : calls[i] = path})

InitBatch ==
    /\ RunIdle
    /\ flt = FltIdle
    /\ \E r \in BOOLEAN, sb \in BOOLEAN, nw \in 1..MaxWorkers,
          f \in RasterFiles :
          config = [recursive |-> r, save_bd |-> sb, n_workers |-> nw,
                    input |-> IF r THEN Root ELSE f]
    /\ cpus \in 1..MaxWorkers
    /\ files = {}
    /\ calls = <<>>
    /\ wstate = <<>>
    /\ outputs = [p \in OutPaths |-> <<>>]
    /\ writers = [p \in OutPaths |-> {}]
    /\ mpc = IF config.recursive THEN "glob" ELSE "single"

\* Lines 165-177: the recursive branch lists the files and opens the pool.
Glob ==
    /\ mpc = "glob"
    /\ \E fs \in FileSets :
          /\ files' = fs
          /\ wstate' = [f \in fs |-> "queued"]
    /\ mpc' = "pool"
    /\ UNCHANGED <<runVars, flt, config, cpus, calls, outputs, writers>>

\* A free worker of the pool takes a file: process_file(file) is called and
\* reads the raster (lines 37-45).
WorkerStart(f) ==
    /\ mpc = "pool"
    /\ f \in files
    /\ wstate[f] = "queued"
    /\ Cardinality(Busy) < n_workers
    /\ calls' = Append(calls, f)
    /\ wstate' = [wstate EXCEPT ![f] = "read"]
    /\ UNCHANGED <<runVars, flt, config, cpus, files, outputs, writers, mpc>>

\* Lines 48-51 of process_file(f).
WriteBurnDates(f) ==
    /\ mpc \in {"pool", "main"}
    /\ f \in DOMAIN wstate
    /\ wstate[f] = "read"
    /\ config.save_bd
    /\ LET out_path_bds == get_filename(f, "floodfill_burndates")
       IN  /\ outputs' = [outputs EXCEPT ![out_path_bds] = f]
           /\ writers' = [writers EXCEPT ![out_path_bds] = @ \cup {f}]
    /\ wstate' = [wstate EXCEPT ![f] = "bd"]
    /\ UNCHANGED <<runVars, flt, config, cpus, files, calls, mpc>>

\* Lines 54-56 of process_file(f), after which the call returns.
WriteIds(f) ==
    /\ mpc \in {"pool", "main"}
    /\ f \in DOMAIN wstate
    /\ wstate[f] = (IF config.save_bd THEN "bd" ELSE "read")
    /\ LET out_path_ids == get_filename(f, "floodfill_ids")
       IN  /\ outputs' = [outputs EXCEPT ![out_path_ids] = f]
           /\ writers' = [writers EXCEPT ![out_path_ids] = @ \cup {f}]
    /\ wstate' = [wstate EXCEPT ![f] = "done"]
    /\ UNCHANGED <<runVars, flt, config, cpus, files, calls, mpc>>

\* pool.map returns when every file is done; the with block ends and main
\* goes on to line 181 (there is no return after the recursive branch).
PoolJoin ==
    /\ mpc = "pool"
    /\ \A f \in files : wstate[f] = "done"
    /\ mpc' = "single"
    /\ UNCHANGED <<runVars, flt, config, cpus, files, calls, wstate, outputs,
                   writers>>

\* Line 181: process_file(config.input). read_data raises on a folder, which
\* ends main; on a raster file the call goes on in the main process.
MainCall ==
    /\ mpc = "single"
    /\ calls' = Append(calls, config.input)
    /\ IF IsDir(config.input)
       THEN /\ mpc' = "failed"
            /\ UNCHANGED wstate
       ELSE /\ mpc' = "main"
            /\ wstate' = [f \in DOMAIN wstate \cup {config.input} |->
                             IF f = config.input THEN "read" ELSE wstate[f]]
    /\ UNCHANGED <<runVars, flt, config, cpus, files, outputs, writers>>

\* process_file(config.input) has returned, and so does main.
MainReturn ==
    /\ mpc = "main"
    /\ wstate[config.input] = "done"
    /\ mpc' = "done"
    /\ UNCHANGED <<runVars, flt, config, cpus, files, calls, wstate, outputs,
                   writers>>

NextBatch ==
    \/ Glob
    \/ \E f \in RasterFiles : WorkerStart(f)
    \/ \E f \in RasterFiles : WriteBurnDates(f)
    \/ \E f \in RasterFiles : WriteIds(f)
    \/ PoolJoin
    \/ MainCall
    \/ MainReturn

SpecBatch == InitBatch /\ [][NextBatch]_vars

\* ------------------------------------------------------------- claims
\* Two cells are 8-adjacent.
Adjacent(p, q) == p # q /\ Abs(p[1] - q[1]) <= 1 /\ Abs(p[2] - q[2]) <= 1
\* Two burned cells are 8-adjacent and their input dates are within cut_off.
Linked(p, q) == Adjacent(p, q) /\ Abs(raster[p] - raster[q]) <= cut_off

RECURSIVE Closure(_)
Closure(S) ==
    LET T == S \cup {q \in Burned : \E p \in S : Linked(p, q)}
    IN  IF T = S THEN S ELSE Closure(T)
\* The burned cells linked to p by a chain of Linked steps.
Component(p) == Closure({p})

\* C1: when run returns, any two burned pixels linked by a chain of
\* 8-adjacent burned pixels whose consecutive dates differ by at most
\* cut_off hold the same identifier, and that identifier is nonzero.
C1_MergeCorrect ==
    pc = "done" =>
        \A p \in Burned : \A q \in Component(p) :
            fire_id_raster[p] = fire_id_raster[q] /\ fire_id_raster[p] # 0

\* C2: for 8-adjacent burned pixels p (earlier) and q (later) with dates
\* within cut_off, processing q draws no fresh identifier, and once both are
\* processed (up to and including the return) they share one nonzero
\* identifier.
C2_AdjacentShare ==
    /\ \A p \in Processed : \A q \in Processed :
          Linked(p, q) =>
              fire_id_raster[p] = fire_id_raster[q] /\ fire_id_raster[q] # 0
    /\ (idx > 0 /\ last_case = "new") =>
          ~\E p \in Processed : Linked(p, coords[idx])

\* C3: on a grid with exactly two burned cells that are 8-adjacent and whose
\* dates differ by more than cut_off, run returns two distinct nonzero
\* identifiers for them.
C3_TwoDistinct ==
    (pc = "done" /\ n_pixels = 2 /\ Adjacent(coords[1], coords[2])
        /\ Abs(raster[coords[1]] - raster[coords[2]]) > cut_off) =>
        /\ fire_id_raster[coords[1]] # 0
        /\ fire_id_raster[coords[2]] # 0
        /\ fire_id_raster[coords[1]] # fire_id_raster[coords[2]]

\* C4: when run returns (input cells all in 0..366), the returned burn-date
\* grid equals the input grid cell for cell.
C4_DatesPreserved ==
    pc = "done" => \A c \in Cells(shape) : burn_date_raster[c] = raster[c]

\* A run has returned in which a merge rewrote the id of a cell whose date
\* differs from the date of another cell of its final event.
C4_Witness ==
    /\ pc = "done"
    /\ \E c \in Burned, k \in Burned :
          /\ Cardinality(ever_ids[c]) >= 3
          /\ fire_id_raster[c] # 0
          /\ fire_id_raster[c] = fire_id_raster[k]
          /\ raster[c] # raster[k]

\* The most recently processed pixel that holds identifier e.
LastOfEvent(e) ==
    coords[MaxOf({i \in 1..idx : fire_id_raster[coords[i]] = e})]

\* C5 (as stated): at every step, a cell holding a nonzero identifier shows
\* the burn date of the most recently processed pixel of its event.
C5_CanonicalDateOfEvent ==
    \A c \in Cells(shape) :
        fire_id_raster[c] # 0 =>
            burn_date_raster[c] = raster[LastOfEvent(fire_id_raster[c])]

\* C5 (amended): at every step, every cell the scan has processed shows its
\* own input burn date, whatever joined its event later, and every cell
\* not yet processed shows 0.
C5_OwnDate ==
    \A c \in Cells(shape) :
        burn_date_raster[c] = IF c \in Processed THEN raster[c] ELSE 0

\* A later pixel with another date has joined the event of an earlier cell.
C5_Witness ==
    /\ idx >= 2
    /\ last_case \in {"adopt", "merge"}
    /\ \E c \in Processed :
          /\ c # coords[idx]
          /\ fire_id_raster[c] # 0
          /\ fire_id_raster[c] = fire_id_raster[coords[idx]]
          /\ raster[c] # raster[coords[idx]]

\* The loop is about to take the merge branch.
MergeStep == pc = "scan" /\ idx < n_pixels /\ CaseMerge(Neighborhood)

\* The nonzero ids ever held by a cell that now holds identifier e.
EverHeldIn(e) ==
    UNION {ever_ids[c] \ {0} : c \in {k \in Cells(shape) : fire_id_raster[k] = e}}

\* C6, the merge step: after a merge at (y,x) with matched ids S, |S| > 1,
\* and m = min(S), no cell holds a member of S other than m, every cell that
\* held a member of S holds m, and (y,x) holds m.
C6_MergeStepMin ==
    MergeStep =>
        LET S == Neighborhood.current_ids
            m == MinOf(S)
        IN  /\ Cardinality(S) > 1
            /\ \A c \in Cells(shape) :
                  /\ fire_id_raster'[c] \notin (S \ {m})
                  /\ (fire_id_raster[c] \in S => fire_id_raster'[c] = m)
            /\ fire_id_raster'[Cur] = m

\* C6, the result: when run returns, the identifier of a labeled cell is the
\* smallest identifier ever held by any cell of its final event.
C6_FinalMin ==
    pc = "done" =>
        \A c \in Cells(shape) :
            fire_id_raster[c] # 0 =>
                fire_id_raster[c] = MinOf(EverHeldIn(fire_id_raster[c]))

\* C6: minimum id wins, in each merge step and across successive merges.
C6_MinimumWins == [][C6_MergeStepMin]_vars /\ []C6_FinalMin

\* A run has returned with a labeled cell whose id a merge lowered.
C6_Witness ==
    /\ pc = "done"
    /\ \E c \in Cells(shape) :
          /\ fire_id_raster[c] # 0
          /\ Cardinality(ever_ids[c] \ {0}) >= 2

\* C7: at every step and at return, every cell whose input date is 0 holds 0
\* in the identifier grid and in the burn-date grid.
C7_UnburnedStayZero ==
    \A c \in Cells(shape) :
        raster[c] = 0 => fire_id_raster[c] = 0 /\ burn_date_raster[c] = 0

\* A merge whose matched ids include 0 has just rewritten the grid while an
\* unburned cell exists and a labeled cell remains.
C7_Witness ==
    /\ last_case = "merge"
    /\ \E c \in Cells(shape) : raster[c] = 0
    /\ \E c \in Cells(shape) : fire_id_raster[c] # 0
    /\ fire_id_raster[coords[idx]] = 0

\* The neighbour set of the contract: the window clipped at the grid edges,
\* without the centre.
ContractNeighbors(x, y, sh, distance) ==
    {c \in Cells(sh) :
        /\ Max2(y - distance, 0) <= c[1] /\ c[1] <= Min2(y + distance, sh[1] - 1)
        /\ Max2(x - distance, 0) <= c[2] /\ c[2] <= Min2(x + distance, sh[2] - 1)
        /\ c # <<y, x>>}

\* On how many of its two axes the cell lies on the border of the grid.
BorderAxes(c, sh) ==
    (IF c[1] = 0 \/ c[1] = sh[1] - 1 THEN 1 ELSE 0)
    + (IF c[2] = 0 \/ c[2] = sh[2] - 1 THEN 1 ELSE 0)

\* C8: _get_neighbors(x, y, data, distance), distance >= 0, marks exactly
\* the cells of the clipped window around an in-bounds centre, without the
\* centre and without wraparound; with distance 1 on a grid of at least 3x3
\* a corner has 3 neighbours, another edge cell 5 and an interior cell 8.
C8_NeighborContract ==
    nb.called =>
        /\ nb.mask = ContractNeighbors(nb.x, nb.y, shape, nb.distance)
        /\ (nb.distance = 1 /\ shape[1] >= 3 /\ shape[2] >= 3) =>
              Cardinality(nb.mask) =
                  CASE BorderAxes(<<nb.y, nb.x>>, shape) = 2 -> 3
                    [] BorderAxes(<<nb.y, nb.x>>, shape) = 1 -> 5
                    [] OTHER -> 8

\* The centre of a 3x3 grid was asked for with distance 1: 8 neighbours.
C8_Witness ==
    /\ nb.called /\ shape = <<3, 3>> /\ nb.distance = 1
    /\ nb.x = 1 /\ nb.y = 1
    /\ Cardinality(nb.mask) = 8

\* C9 (as stated): with a negative cut_off run fails before the scan: no
\* pixel is labeled and neither grid nor the counter is written.
C9_NegativeCutOffRejected ==
    cut_off < 0 =>
        /\ fire_counter = 1
        /\ idx = 0
        /\ \A c \in Cells(shape) :
              fire_id_raster[c] = 0 /\ burn_date_raster[c] = 0

\* C9 (amended): run does not validate cut_off. With a negative cut_off the
\* scan runs to its end, every pixel takes the fresh-identifier step (never
\* adopt or merge), the i-th burned pixel in scan order holds the stored
\* value of i, and the counter is 1 + the number of pixels processed.
C9_NegativeCutOffScans ==
    cut_off < 0 =>
        /\ last_case \in {"none", "new"}
        /\ fire_counter = idx + 1
        /\ \A i \in 1..idx :
              /\ fire_id_raster[coords[i]] = i % IdModulus
              /\ burn_date_raster[coords[i]] = raster[coords[i]]
        /\ (pc = "done" => idx = n_pixels)

\* run has returned for a negative cut_off on a raster with two 8-adjacent
\* burned pixels of the same date.
C9_Witness ==
    /\ cut_off < 0 /\ pc = "done"
    /\ \E p \in Burned, q \in Burned :
          Adjacent(p, q) /\ raster[p] = raster[q]

\* The loop is about to assign a fresh identifier.
FreshStep ==
    /\ pc = "scan" /\ idx < n_pixels
    /\ CaseNew(Neighborhood)
    /\ fire_id_raster[Cur] = 0

\* C10, the steps: the counter grows by exactly 1 in the step that assigns a
\* fresh identifier and is unchanged in every other step.
C10_CounterStep ==
    fire_counter' = IF FreshStep THEN fire_counter + 1 ELSE fire_counter

\* C10, the states: the counter is at least 1 and every identifier a cell
\* holds or has ever held is below the counter, so the next fresh
\* identifier was never held by any cell.
C10_IdsBelowCounter ==
    /\ fire_counter >= 1
    /\ \A c \in Cells(shape) :
          /\ fire_id_raster[c] <= fire_counter
          /\ \A i \in ever_ids[c] : i # fire_counter /\ i < fire_counter

\* C10: the counter invariant.
C10_CounterInvariant ==
    /\ fire_counter = 1
    /\ [][C10_CounterStep]_vars
    /\ []C10_IdsBelowCounter

\* A fresh identifier has just been assigned after a merge retired one.
C10_Witness ==
    /\ last_case = "new"
    /\ \E c \in Cells(shape) : Cardinality(ever_ids[c] \ {0}) >= 2

\* C14: in every state of the scan a cell whose identifier is 0 has burn
\* date 0, so an unlabeled neighbour of the current pixel passes the cut-off
\* test exactly when the pixel's date is at most cut_off.
C14_ZeroIdZeroDate ==
    /\ \A c \in Cells(shape) :
          fire_id_raster[c] = 0 => burn_date_raster[c] = 0
    /\ (pc = "scan" /\ idx < n_pixels) =>
          \A n \in Neighborhood.neighbor_mask :
              fire_id_raster[n] = 0 =>
                  (n \in Neighborhood.current_fire <=> pixel_date <= cut_off)

\* C15: whenever a pixel is taken from the scan sequence its identifier is
\* still 0 (no step labels a coordinate that was not visited yet), so the
\* "old fire already present" branch is never taken.
C15_SkipUnreachable ==
    /\ last_case # "skip"
    /\ \A c \in Burned \ Processed : fire_id_raster[c] = 0
    /\ (pc = "scan" /\ idx < n_pixels) => fire_id_raster[Cur] = 0

\* Right after a grid-wide merge rewrite the next pixel is about to take the
\* new-fire branch, next to a labeled neighbour.
C15_Witness ==
    /\ last_case = "merge"
    /\ pc = "scan" /\ idx < n_pixels
    /\ CaseNew(Neighborhood)
    /\ Neighborhood.old_fire_present

\* C16: when run returns for a cut_off >= 0, every burned cell holds a
\* nonzero identifier.
C16_AllBurnedLabeled ==
    (pc = "done" /\ cut_off >= 0) =>
        \A c \in Burned : fire_id_raster[c] # 0

\* C17: in every state, two cells that hold the same nonzero identifier are
\* linked by a chain of burned pixels whose consecutive members are
\* 8-adjacent and differ in input date by at most cut_off.
C17_NoOverMerge ==
    \A p \in Cells(shape) :
        fire_id_raster[p] # 0 =>
            LET comp == Component(p)
            IN  \A q \in Cells(shape) :
                    fire_id_raster[q] = fire_id_raster[p] => q \in comp

\* A merge has joined cells that share a nonzero identifier without being
\* directly linked to each other.
C17_Witness ==
    /\ last_case = "merge"
    /\ \E p \in Cells(shape), q \in Cells(shape) :
          /\ p # q
          /\ fire_id_raster[p] # 0
          /\ fire_id_raster[p] = fire_id_raster[q]
          /\ ~Linked(p, q)

\* Two identifier grids split the burned pixels into the same events.
SamePartition(a, b) ==
    \A p \in Burned, q \in Burned : (a[p] = a[q]) <=> (b[p] = b[q])

\* The function form of the loop agrees with the steps of the scan.
ScanAgrees ==
    pc = "done" =>
        /\ fire_id_raster = RunResult(coords).ids
        /\ burn_date_raster = RunResult(coords).dates
        /\ fire_counter = RunResult(coords).counter

C11_OrderIndependentAboveCutOff ==
    (pc = "done" /\ \A c \in Burned : raster[c] > cut_off) =>
        SamePartition(fire_id_raster, RowMajorResult.ids)

\* C13: isolate_burned_pixels sets to 0 exactly the cells outside the window
\* [lower, upper]: a cell v with lower <= v <= upper, the two bounds
\* included, is left as it was, and every other cell becomes 0.
C13_WindowInclusive ==
    flt.done =>
        \A i \in DOMAIN flt.input :
            flt.array[i] =
                IF flt.lower <= flt.input[i] /\ flt.input[i] <= flt.upper
                THEN flt.input[i]
                ELSE 0

\* The part of C13 that holds: after the call every nonzero cell lies
\* within [lower, upper] (and in fact strictly inside).
C13_NonzeroWithin ==
    flt.done =>
        \A i \in DOMAIN flt.array :
            flt.array[i] # 0 =>
                flt.lower < flt.array[i] /\ flt.array[i] < flt.upper


\* C12: in the batch mode with more than one worker, an output path written
\* for one input file is written for no other input file, so that once the
\* pool is done every file's outputs hold that file's own results, whatever
\* the interleaving and also when two files in different subfolders have
\* the same base name.
C12_WorkersDisjoint ==
    (config.recursive /\ n_workers > 1) =>
        /\ \A p \in DOMAIN writers : Cardinality(writers[p]) <= 1
        /\ mpc \in {"single", "failed"} =>
              \A f \in files :
                  /\ outputs[get_filename(f, "floodfill_ids")] = f
                  /\ config.save_bd =>
                        outputs[get_filename(f, "floodfill_burndates")] = f

\* The part of C12 that holds: files with different base names never write
\* to the same path.
C12_DistinctNamesDisjoint ==
    \A p \in DOMAIN writers :
        \A f \in writers[p], g \in writers[p] : basename(f) = basename(g)

\* C18: main calls process_file exactly once per input file: under -r once
\* on each file of the glob and never on config.input, without -r exactly
\* once, on config.input.
C18_OncePerFile ==
    mpc \in {"done", "failed"} =>
        IF config.recursive
        THEN /\ \A f \in files : CallCount(f) = 1
             /\ CallCount(config.input) = 0
             /\ Len(calls) = Cardinality(files)
        ELSE calls = <<config.input>>

\* The parts of C18 that hold: every file of the glob is processed exactly
\* once, and without -r the only call is the one on config.input.
C18_FilesOnce ==
    mpc \in {"done", "failed"} =>
        /\ \A f \in files : CallCount(f) = 1
        /\ ~config.recursive => calls = <<config.input>>

=============================================================================
